---- MODULE Spec2Model ----
(***************************************************************************)
(* Model of transform/4_identify_sections.py: the batch that sends every   *)
(* document without a stored entry to the LLM, at most max_concurrency at  *)
(* a time, merges the answers into the stored headings and rewrites the    *)
(* output file.                                                            *)
(*                                                                         *)
(* Abstractions.  A document is its doc_id and whether it validates (its   *)
(* pages only feed the prompt, and the LLM's answer is a nondeterministic  *)
(* choice).  A publication is its documents and whether its own fields     *)
(* validate.  A Sections                                                   *)
(* value is one of Payloads.  The LLM's behaviour towards one task is the  *)
(* number of consecutive failing answers it would give before a valid one  *)
(* (plan), fixed when it answers the task's first call.  asyncio.Semaphore *)
(* is modelled by its counter; any waiting task may be admitted.           *)
(***************************************************************************)
EXTENDS Integers, Sequences, FiniteSets, TLC

\* ---- bounds of the model
MaxDocs == 2          \* documents in the whole input file
MaxPubs == 2          \* publications in the input file
MaxN    == 2          \* largest max_concurrency tried
MaxRuns == 2          \* invocations of the batch on the same files

\* ---- program constants
MaxAttempts == 3      \* stop_after_attempt(3)
WaitMultiplier == 1   \* wait_exponential(multiplier=1, ...)
WaitMin == 4          \* wait_exponential(min=4)
WaitMax == 10         \* wait_exponential(max=10)

DocIds   == {"d1", "d2"}
Payloads == {"s1", "s2"}
FailureKinds == {"raise", "stream", "unparseable"}

\* ---- data
SeqsUpTo(S, n) == UNION {[1..k -> S] : k \in 0..n}

\* A document entry of the input: one that validates as a TextDocument, or one
\* that does not (a required field missing or of the wrong type, lines 25-33)
MalformedDocument == [doc_id |-> "-", valid |-> FALSE]
TextDocument == {[doc_id |-> d, valid |-> TRUE] : d \in DocIds} \cup {MalformedDocument}

\* A publication entry of the input: one whose own fields do not validate, or
\* one with well-formed fields and its document entries.  A publication without
\* documents adds nothing to the pending list; the inputs tried hold none.
TextPublication ==
    {[valid |-> FALSE, documents |-> <<>>]}
    \cup {[valid |-> TRUE, documents |-> ds] :
             ds \in SeqsUpTo(TextDocument, MaxDocs) \ {<<>>}}

RECURSIVE TotalDocs(_)
TotalDocs(pubs) ==
    IF pubs = <<>> THEN 0 ELSE Len(Head(pubs).documents) + TotalDocs(Tail(pubs))

InputContents == {c \in SeqsUpTo(TextPublication, MaxPubs) : TotalDocs(c) <= MaxDocs}

EmptyStore == [d \in {} |-> "s1"]
Stores == UNION {[S -> Payloads] : S \in SUBSET DocIds}

Put(h, k, v) == [d \in (DOMAIN h) \cup {k} |-> IF d = k THEN v ELSE h[d]]

None == [ok |-> FALSE, doc_id |-> "-", sections |-> "-"]
Result(id, s) == [ok |-> TRUE, doc_id |-> id, sections |-> s]

Min(a, b) == IF a < b THEN a ELSE b
Max(a, b) == IF a > b THEN a ELSE b

VARIABLES
    input,              \* the input file: [readable, content]
    file,               \* the output file: [state, data]
    max_concurrency,
    pc,                 \* position of process_documents_concurrently
    existing_headings,
    all_documents,
    sem,                \* value of the semaphore
    tpc,                \* per task: "pending", "calling", "done"
    plan,               \* per task: failing answers the LLM gives before a valid one
    calls,              \* per task: acompletion calls made
    fails,              \* per task: attempts that ended in the except branch
    waits,              \* per task: the sleeps tenacity made between attempts
    results,            \* per task: what process_text returned
    headings_data,
    failed_docs,
    run,                \* number of the current invocation
    prev                \* summary of the previous invocation

vars == <<input, file, max_concurrency, pc, existing_headings, all_documents, sem,
          tpc, plan, calls, fails, waits, results, headings_data, failed_docs, run, prev>>

Tasks == DOMAIN all_documents

NoPrev == [completed |-> FALSE, store |-> EmptyStore, all_ok |-> FALSE, failed |-> {}]

Init ==
    /\ input \in {[readable |-> FALSE, content |-> <<>>]}
                 \cup {[readable |-> TRUE, content |-> c] : c \in InputContents}
    /\ file \in {[state |-> "absent", data |-> EmptyStore],
                 [state |-> "partial", data |-> EmptyStore]}
                \cup {[state |-> "ok", data |-> s] : s \in Stores}
    /\ max_concurrency \in 1..MaxN
    /\ pc = "start"
    /\ existing_headings = EmptyStore
    /\ all_documents = <<>>
    /\ sem = max_concurrency
    /\ tpc = <<>>
    /\ plan = <<>>
    /\ calls = <<>>
    /\ fails = <<>>
    /\ waits = <<>>
    /\ results = <<>>
    /\ headings_data = EmptyStore
    /\ failed_docs = <<>>
    /\ run = 1
    /\ prev = NoPrev

\* ---- lines 120-126: load the stored headings, if the output file exists
LoadExisting ==
    /\ pc = "start"
    /\ IF file.state = "partial"
       THEN \* json.load raises; logged and re-raised at 188-190
            /\ pc' = "raised"
            /\ UNCHANGED existing_headings
       ELSE /\ existing_headings' = IF file.state = "ok" THEN file.data ELSE EmptyStore
            /\ pc' = "input"
    /\ UNCHANGED <<input, file, max_concurrency, all_documents, sem, tpc, plan, calls,
                   fails, results, headings_data, failed_docs, run, prev, waits>>

\* ---- line 135: TextPublication.model_validate accepts an entry whose own fields
\* and whose documents, with their pages, all validate
Validates(pub_data) ==
    pub_data.valid /\ \A j \in DOMAIN pub_data.documents : pub_data.documents[j].valid

\* ---- lines 131-138: the publications that validate; the others are logged
RECURSIVE ValidPublicationsUntilError(_)
ValidPublicationsUntilError(content) ==
    IF content = <<>> \/ ~Validates(Head(content)) THEN <<>>
    ELSE <<Head(content)>> \o ValidPublicationsUntilError(Tail(content))

RECURSIVE ValidPublications(_)
ValidPublications(content) ==
    IF content = <<>> THEN <<>>
    ELSE (IF Validates(Head(content)) THEN <<Head(content)>> ELSE <<>>)
         \o ValidPublications(Tail(content))

\* ---- line 149: the resume filter
NotInExistingNever(doc, existing) == TRUE
NotInExisting(doc, existing) == doc.doc_id \notin DOMAIN existing

\* ---- lines 146-150: documents of all publications without a stored entry
RECURSIVE CollectDocuments(_, _)
CollectDocuments(publications, existing) ==
    IF publications = <<>> THEN <<>>
    ELSE SelectSeq(Head(publications).documents, LAMBDA doc : NotInExisting(doc, existing))
         \o CollectDocuments(Tail(publications), existing)

\* ---- lines 128-129: open(input_file) or json.load raises
InputLoadRaisesNever(inp) == FALSE
InputLoadRaises(inp) == ~inp.readable

\* ---- lines 128-163: read and parse the input, create the semaphore and one task
\* per new document, and start to gather them
LoadInput ==
    /\ pc = "input"
    /\ IF InputLoadRaises(input)
       THEN /\ pc' = "raised"
            /\ UNCHANGED <<all_documents, sem, tpc, plan, calls, fails, waits, results>>
       ELSE LET docs == CollectDocuments(ValidPublications(input.content), existing_headings)
            IN /\ all_documents' = docs
               /\ sem' = max_concurrency
               /\ tpc' = [i \in DOMAIN docs |-> "pending"]
               /\ plan' = [i \in DOMAIN docs |-> 0]
               /\ calls' = [i \in DOMAIN docs |-> 0]
               /\ fails' = [i \in DOMAIN docs |-> 0]
               /\ waits' = [i \in DOMAIN docs |-> <<>>]
               /\ results' = [i \in DOMAIN docs |-> None]
               /\ pc' = "gather"
    /\ UNCHANGED <<input, file, max_concurrency, existing_headings, headings_data,
                   failed_docs, run, prev>>

\* ---- asyncio.Semaphore.locked(): no unit left
SemLockedNever(value) == FALSE
SemLocked(value) == value = 0

\* ---- lines 155-157 and 66-92: a task enters the semaphore and sends its first
\* request to the LLM
Acquire(i) ==
    /\ pc = "gather"
    /\ tpc[i] = "pending"
    /\ ~SemLocked(sem)
    /\ sem' = sem - 1
    /\ tpc' = [tpc EXCEPT ![i] = "calling"]
    /\ calls' = [calls EXCEPT ![i] = 1]
    /\ UNCHANGED <<input, file, max_concurrency, pc, existing_headings, all_documents,
                   plan, fails, results, headings_data, failed_docs, run, prev, waits>>

\* process_text without the except of line 100: a failed attempt raises
ProcessTextBodyNoExcept(doc, answer) ==
    IF answer.kind = "valid"
    THEN [raised |-> FALSE, value |-> Result(doc.doc_id, answer.sections)]
    ELSE [raised |-> TRUE, value |-> None]

\* ---- lines 66-102: the body of process_text on the LLM's answer.  Every
\* exception of the try block is caught at line 100 and turned into None.
ProcessTextBody(doc, answer) ==
    IF answer.kind = "valid"
    THEN [raised |-> FALSE, value |-> Result(doc.doc_id, answer.sections)]
    ELSE [raised |-> FALSE, value |-> None]

\* ---- line 63: tenacity retries an attempt that raised, up to 3 attempts
ShouldRetry(outcome, attempt_number) ==
    outcome.raised /\ attempt_number < MaxAttempts

\* ---- line 63: wait_exponential(multiplier=1, min=4, max=10) before the next attempt
WaitExponential(attempt_number) ==
    Max(WaitMin, Min(WaitMultiplier * (2 ^ (attempt_number - 1)), WaitMax))

\* The LLM's behaviours towards task i: open until its first answer, then fixed
Plans(i) == IF calls[i] = 1 THEN 0..MaxAttempts ELSE {plan[i]}

\* The answers the LLM can give to the call in flight of task i under plan k
Answers(i, k) ==
    IF fails[i] < k
    THEN {[kind |-> f, sections |-> "-"] : f \in FailureKinds}
    ELSE {[kind |-> "valid", sections |-> s] : s \in Payloads}

\* ---- line 155: leaving "async with semaphore" gives the unit back, whatever
\* process_text returned or raised
SemReleaseOnSuccess(value, outcome) == IF outcome.raised \/ ~outcome.value.ok THEN value ELSE value + 1
SemRelease(value, outcome) == value + 1

\* ---- lines 93-102, 63 and 155-157: the answer arrives; process_text returns, or
\* is retried after a sleep, or its last attempt raised.  On return or raise the
\* semaphore is released and the task ends; a raise goes through gather (line 163)
\* to the except of line 188.
Respond(i) ==
    /\ pc = "gather"
    /\ tpc[i] = "calling"
    /\ \E k \in Plans(i) : \E answer \in Answers(i, k) :
         LET outcome == ProcessTextBody(all_documents[i], answer)
         IN /\ plan' = [plan EXCEPT ![i] = k]
            /\ fails' = [fails EXCEPT ![i] = IF answer.kind = "valid" THEN @ ELSE @ + 1]
            /\ IF ShouldRetry(outcome, calls[i])
               THEN /\ waits' = [waits EXCEPT ![i] = Append(@, WaitExponential(calls[i]))]
                    /\ calls' = [calls EXCEPT ![i] = @ + 1]
                    /\ UNCHANGED <<sem, tpc, results, pc>>
               ELSE /\ results' = [results EXCEPT ![i] = outcome.value]
                    /\ tpc' = [tpc EXCEPT ![i] = IF outcome.raised THEN "raised" ELSE "done"]
                    /\ pc' = IF outcome.raised THEN "raised" ELSE pc
                    /\ sem' = SemRelease(sem, outcome)
                    /\ UNCHANGED <<calls, waits>>
    /\ UNCHANGED <<input, file, max_concurrency, existing_headings, all_documents,
                   headings_data, failed_docs, run, prev>>

\* ---- line 163: gather returns when every task has returned
GatherReadyAny(t) == \E i \in DOMAIN t : t[i] = "done"
GatherReady(t) == \A i \in DOMAIN t : t[i] = "done"

\* ---- lines 169-174: start from the stored headings, put every result in task order
RECURSIVE MergeInto(_, _)
MergeInto(h, rs) ==
    IF rs = <<>> THEN h
    ELSE MergeInto(Put(h, Head(rs).doc_id, Head(rs).sections), Tail(rs))

MergeResultsFresh(existing, rs) == MergeInto(EmptyStore, rs)
MergeResultsReversed(existing, rs) ==
    MergeInto(existing, [i \in 1..Len(rs) |-> rs[Len(rs) + 1 - i]])
MergeResults(existing, rs) == MergeInto(existing, rs)

\* ---- line 166: the results that are not None
FilterResultsKeepAll(rs) == rs
FilterResults(rs) == SelectSeq(rs, LAMBDA r : r.ok)

\* ---- lines 163-174: collect the results, drop the None ones, merge
Merge ==
    /\ pc = "gather"
    /\ GatherReady(tpc)
    /\ headings_data' = MergeResults(existing_headings, FilterResults(results))
    /\ pc' = "save"
    /\ UNCHANGED <<input, file, max_concurrency, existing_headings, all_documents, sem,
                   tpc, plan, calls, fails, results, failed_docs, run, prev, waits>>

\* ---- line 178: open(output_file, 'w') truncates the file, or fails
OpenOutput ==
    /\ pc = "save"
    /\ \E opened \in BOOLEAN :
         IF opened
         THEN /\ file' = [state |-> "partial", data |-> EmptyStore]
              /\ pc' = "dump"
         ELSE /\ pc' = "raised"
              /\ UNCHANGED file
    /\ UNCHANGED <<input, max_concurrency, existing_headings, all_documents, sem, tpc,
                   plan, calls, fails, results, headings_data, failed_docs, run, prev, waits>>

\* ---- line 179: json.dump writes the merged headings, or fails part-way
DumpOutput ==
    /\ pc = "dump"
    /\ \E written \in BOOLEAN :
         IF written
         THEN /\ file' = [state |-> "ok", data |-> headings_data]
              /\ pc' = "report"
         ELSE /\ pc' = "raised"
              /\ UNCHANGED file
    /\ UNCHANGED <<input, max_concurrency, existing_headings, all_documents, sem, tpc,
                   plan, calls, fails, results, headings_data, failed_docs, run, prev, waits>>

\* ---- line 184: the identifiers of the new documents without an entry
FailedDocs(docs, h) ==
    LET missing == SelectSeq(docs, LAMBDA doc : doc.doc_id \notin DOMAIN h)
    IN [i \in DOMAIN missing |-> missing[i].doc_id]

\* ---- lines 181-186
Report ==
    /\ pc = "report"
    /\ failed_docs' = FailedDocs(all_documents, headings_data)
    /\ pc' = "done"
    /\ UNCHANGED <<input, file, max_concurrency, existing_headings, all_documents, sem,
                   tpc, plan, calls, fails, results, headings_data, run, prev, waits>>

\* ---- lines 192-198: the script is run again on the same files
Rerun ==
    /\ pc \in {"done", "raised"}
    /\ run < MaxRuns
    /\ prev' = [completed |-> pc = "done",
                store |-> IF pc = "done" THEN file.data ELSE EmptyStore,
                all_ok |-> pc = "done" /\ \A i \in Tasks : results[i].ok,
                failed |-> IF pc = "done"
                           THEN {all_documents[i].doc_id : i \in {j \in Tasks : ~results[j].ok}}
                           ELSE {}]
    /\ run' = run + 1
    /\ pc' = "start"
    /\ existing_headings' = EmptyStore
    /\ all_documents' = <<>>
    /\ sem' = max_concurrency
    /\ tpc' = <<>>
    /\ plan' = <<>>
    /\ calls' = <<>>
    /\ fails' = <<>>
    /\ waits' = <<>>
    /\ results' = <<>>
    /\ headings_data' = EmptyStore
    /\ failed_docs' = <<>>
    /\ UNCHANGED <<input, file, max_concurrency>>

Next ==
    \/ LoadExisting
    \/ LoadInput
    \/ \E i \in Tasks : Acquire(i)
    \/ \E i \in Tasks : Respond(i)
    \/ Merge
    \/ OpenOutput
    \/ DumpOutput
    \/ Report
    \/ Rerun

Spec == Init /\ [][Next]_vars

\* ======================================================================
\* Properties
\* ======================================================================

InFlight == {i \in Tasks : tpc[i] = "calling"}
Written == pc \in {"report", "done"}
AfterGather == pc \in {"save", "dump", "report", "done"}
SucceededIds == {results[i].doc_id : i \in {j \in Tasks : results[j].ok}}
FailedTaskIds == {all_documents[i].doc_id : i \in {j \in Tasks : ~results[j].ok}}
InputDocIds ==
    LET pubs == ValidPublications(input.content)
    IN UNION {{pubs[p].documents[j].doc_id : j \in DOMAIN pubs[p].documents} : p \in DOMAIN pubs}

\* C1 (retry cap): a task whose LLM call fails on every attempt ends only after
\* exactly MaxAttempts calls, and then with the failure value None.
RetryCap ==
    \A i \in Tasks :
        (tpc[i] = "done" /\ plan[i] >= MaxAttempts)
            => (calls[i] = MaxAttempts /\ ~results[i].ok)

\* C2 (transient failure recovery): a task whose call fails k times, 1 <= k <= 2,
\* and would succeed on attempt k+1 ends in a success after k+1 calls; its entry is
\* in the written store and its identifier is not in the failed list.
TransientRecovery ==
    \A i \in Tasks :
        (tpc[i] = "done" /\ plan[i] \in 1..(MaxAttempts - 1))
            => /\ results[i].ok
               /\ calls[i] = plan[i] + 1
               /\ Written => all_documents[i].doc_id \in DOMAIN file.data
               /\ pc = "done" =>
                     \A j \in DOMAIN failed_docs : failed_docs[j] # all_documents[i].doc_id

\* C3 (bounded concurrency): the tasks admitted through the semaphore whose
\* process_text call has not returned are never more than max_concurrency.
BoundedConcurrency == Cardinality(InFlight) <= max_concurrency

\* C3 witness: the semaphore is full and a further task waits for a unit.
BoundedConcurrencyWitness ==
    /\ Cardinality(InFlight) = max_concurrency
    /\ \E i \in Tasks : tpc[i] = "pending"

\* C4 (persisted results never lost): at every instant after the load the output
\* file holds every entry of the store that was loaded, also during the write and
\* after a write that failed.
PersistedNeverShrinks ==
    \A d \in DOMAIN existing_headings :
        /\ file.state = "ok"
        /\ d \in DOMAIN file.data
        /\ file.data[d] = existing_headings[d]

\* C5 (non-destructive merge): the merged store, and the file written from it,
\* holds unchanged every loaded entry whose identifier is not among the successful
\* results of the run.
NonDestructiveMerge ==
    /\ AfterGather =>
         \A d \in (DOMAIN existing_headings) \ SucceededIds :
             d \in DOMAIN headings_data /\ headings_data[d] = existing_headings[d]
    /\ Written =>
         \A d \in (DOMAIN existing_headings) \ SucceededIds :
             /\ file.state = "ok"
             /\ d \in DOMAIN file.data
             /\ file.data[d] = existing_headings[d]

\* C5 witness: a run with stored entries and a new successful result has written.
NonDestructiveMergeWitness ==
    /\ pc = "done"
    /\ existing_headings # EmptyStore
    /\ \E i \in Tasks : results[i].ok

\* C6 (resume never re-processes a stored entry): for an identifier of the loaded
\* store no call is made during the run, and the written store holds its entry as
\* loaded, also when the input holds a document with that identifier.
ResumeSkipsStored ==
    \A d \in DOMAIN existing_headings :
        /\ \A i \in Tasks : all_documents[i].doc_id = d => calls[i] = 0
        /\ Written => (d \in DOMAIN file.data /\ file.data[d] = existing_headings[d])

\* C6 witness: the input holds a document whose identifier is stored, another
\* document was sent to the LLM, and the run has written.
ResumeSkipsStoredWitness ==
    /\ pc = "done"
    /\ \E d \in DOMAIN existing_headings : d \in InputDocIds
    /\ \E i \in Tasks : calls[i] > 0 /\ results[i].ok

\* C7 (idempotent resume): after a completed run, a second run on the same files
\* has no pending document and makes no call when every pending item of the first
\* succeeded; and when the LLM answers the documents still pending as it did in the
\* first run (they fail again) the second run leaves the store of the first.
IdempotentResume ==
    (run >= 2 /\ prev.completed) =>
        /\ (prev.all_ok /\ pc \notin {"start", "input", "raised"}) =>
               (all_documents = <<>> /\ \A i \in Tasks : calls[i] = 0)
        /\ (pc = "done" /\ \A i \in Tasks : ~results[i].ok) =>
               (file.state = "ok" /\ file.data = prev.store)

\* C7 witness: the first run stored every document of a non-empty input, and the
\* second run has ended with the same store.
IdempotentResumeWitness ==
    /\ run = 2
    /\ prev.completed /\ prev.all_ok
    /\ pc = "done"
    /\ InputDocIds # {}
    /\ file.data = prev.store

\* C8 (partial-failure isolation, exact report): at the end of a run the store
\* holds the result of every task that succeeded and no entry for a task that
\* failed, and the failed list is the identifiers of the failed tasks, each once.
PartialFailureIsolation ==
    pc = "done" =>
        /\ \A i \in Tasks : results[i].ok =>
               /\ results[i].doc_id \in DOMAIN file.data
               /\ file.data[results[i].doc_id] = results[i].sections
        /\ \A i \in Tasks : ~results[i].ok =>
               all_documents[i].doc_id \notin DOMAIN file.data
        /\ {failed_docs[j] : j \in DOMAIN failed_docs} = FailedTaskIds
        /\ Len(failed_docs) = Cardinality(FailedTaskIds)

\* C9 (no duplicate pending identifiers): the pending list holds each identifier
\* at most once, whatever the input.
NoDuplicatePending ==
    \A i, j \in Tasks : i # j => all_documents[i].doc_id # all_documents[j].doc_id

\* C10 (no early cancellation): the coordinator goes past gather only when every
\* pending document has been sent to the LLM and has returned; a step of the run
\* never takes back an outcome already produced nor skips a waiting task.
NoEarlyCancellation ==
    /\ [](AfterGather => \A i \in Tasks : tpc[i] = "done" /\ calls[i] >= 1)
    /\ [][run' = run =>
            \A i \in Tasks :
                /\ tpc[i] = "done" => (tpc'[i] = "done" /\ results'[i] = results[i])
                /\ tpc[i] = "pending" => tpc'[i] \in {"pending", "calling"}
                /\ tpc[i] = "calling" => tpc'[i] \in {"calling", "done"}]_vars

\* C10 witness: one task failed, another succeeded after it could have been
\* cancelled, and the coordinator has gone on to merge.
NoEarlyCancellationWitness ==
    /\ pc = "save"
    /\ \E i, j \in Tasks : ~results[i].ok /\ results[j].ok

\* C11 (the executor never raises): whatever the LLM answers, a task ends with
\* process_text having returned None or the mapping of its own doc_id to a
\* Sections value; no task ends by raising into process_with_semaphore or gather.
ExecutorNeverRaises ==
    \A i \in Tasks :
        /\ tpc[i] # "raised"
        /\ tpc[i] = "done" =>
              \/ results[i] = None
              \/ /\ results[i].ok
                 /\ results[i].doc_id = all_documents[i].doc_id
                 /\ results[i].sections \in Payloads

\* C11 witness: the LLM failed a task and another got a valid answer; both returned.
ExecutorNeverRaisesWitness ==
    \E i, j \in Tasks :
        /\ tpc[i] = "done" /\ fails[i] >= 1 /\ results[i] = None
        /\ tpc[j] = "done" /\ results[j].ok

\* C12 (guaranteed release): the units taken from the semaphore are exactly those
\* of the tasks whose call is in flight, so every task that ended, with a success,
\* a failure or a raise, gave its unit back, and once all tasks have ended the
\* semaphore holds max_concurrency units again.
GuaranteedRelease ==
    /\ sem + Cardinality(InFlight) = max_concurrency
    /\ AfterGather => sem = max_concurrency

\* C12 witness: tasks ended with a failure and with a success, and the semaphore
\* is full again.
GuaranteedReleaseWitness ==
    /\ AfterGather
    /\ sem = max_concurrency
    /\ \E i, j \in Tasks : ~results[i].ok /\ results[j].ok

\* C13 (load error is fatal before scheduling): with an unreadable input file the
\* run never gets to create a task or call the LLM, its step at the input load
\* ends in the raised error, and no step changes the output file.
LoadErrorFatal ==
    /\ [](~input.readable => (pc \in {"start", "input", "raised"} /\ Tasks = {}))
    /\ [][~input.readable => (file' = file /\ (pc = "input" => pc' = "raised"))]_vars

\* C13 witness: the stored headings were loaded, then the input load raised.
LoadErrorFatalWitness ==
    /\ ~input.readable
    /\ pc = "raised"
    /\ existing_headings # EmptyStore
    /\ file.state = "ok"

\* The places <<p, j>> of the document entries of the input file
Positions ==
    {pj \in (DOMAIN input.content) \X (1..MaxDocs) :
        pj[2] \in DOMAIN input.content[pj[1]].documents}
DocAt(pj) == input.content[pj[1]].documents[pj[2]]

\* C14 as claimed (validation errors cost only the malformed item): every valid
\* document of the input whose identifier is not stored is pending and is sent
\* to the LLM, whatever other entry of the input is malformed.
ValidItemsStayPending ==
    pc \notin {"start", "input", "raised"} =>
        \A pj \in Positions :
            (input.content[pj[1]].valid /\ DocAt(pj).valid
                /\ DocAt(pj).doc_id \notin DOMAIN existing_headings)
            => \E i \in Tasks :
                  /\ all_documents[i].doc_id = DocAt(pj).doc_id
                  /\ AfterGather => calls[i] >= 1

\* C14 as amended: a publication that does not validate is dropped whole, the
\* load goes on, and the documents without a stored entry of the publications
\* that validate are pending, one task each, and are sent to the LLM.
MalformedPublicationDropped ==
    /\ [](pc \notin {"start", "input", "raised"} =>
            /\ \A d \in DocIds \ DOMAIN existing_headings :
                  Cardinality({i \in Tasks : all_documents[i].doc_id = d})
                  = Cardinality({pj \in Positions :
                        Validates(input.content[pj[1]]) /\ DocAt(pj).doc_id = d})
            /\ AfterGather => \A i \in Tasks : calls[i] >= 1)
    /\ [][(pc = "input" /\ input.readable) => pc' = "gather"]_vars

\* C14 witness: a publication that does not validate comes before one that does
\* and holds a new document, which has been processed.
MalformedPublicationDroppedWitness ==
    /\ pc = "done"
    /\ \E p, q \in DOMAIN input.content :
          /\ p < q
          /\ ~Validates(input.content[p])
          /\ Validates(input.content[q])
    /\ \E i \in Tasks : calls[i] >= 1

\* C15 (single merge and write after all tasks): the stored headings are read
\* only at the start of a run; the output file changes only in the save steps,
\* when every task has returned; it gets its new content in one step, from the
\* merged headings, and is not touched again in the run.
SingleWriteAfterTasks ==
    /\ [][existing_headings' # existing_headings => (pc = "start" \/ pc' = "start")]_vars
    /\ [][file' # file =>
            (pc \in {"save", "dump"} /\ \A i \in Tasks : tpc[i] = "done")]_vars
    /\ [][(file' # file /\ file'.state = "ok") =>
            (pc = "dump" /\ pc' = "report" /\ file'.data = headings_data)]_vars
    /\ [][(pc \in {"report", "done"} /\ run' = run) =>
            (file' = file /\ pc' \in {"report", "done"})]_vars

\* C15 witness: a run with tasks has written a store that differs from the one
\* it loaded.
SingleWriteAfterTasksWitness ==
    /\ pc = "done"
    /\ Tasks # {}
    /\ file.data # existing_headings

\* C16 (the merge rule is exact): the identifiers of the merged and of the
\* written store are those of the loaded store and of the successful results;
\* an entry without a successful result is the loaded one.
MergeRuleExact ==
    /\ AfterGather =>
          /\ DOMAIN headings_data = (DOMAIN existing_headings) \cup SucceededIds
          /\ \A d \in (DOMAIN headings_data) \ SucceededIds :
                d \in DOMAIN existing_headings /\ headings_data[d] = existing_headings[d]
    /\ Written => DOMAIN file.data = (DOMAIN existing_headings) \cup SucceededIds

\* C16 witness: a run with stored entries, a failed and a successful task has
\* written.
MergeRuleExactWitness ==
    /\ pc = "done"
    /\ existing_headings # EmptyStore
    /\ \E i, j \in Tasks : ~results[i].ok /\ results[j].ok

\* C17 (failed items are retried on the next invocation): an identifier that
\* ended the run with a failure outcome is not in the written store, was given to
\* one task only in that run, and is pending in the next run on the same files.
FailedRetriedNextRun ==
    /\ pc = "done" =>
          \A i \in Tasks : ~results[i].ok =>
              /\ all_documents[i].doc_id \notin DOMAIN file.data
              /\ Cardinality({j \in Tasks :
                     all_documents[j].doc_id = all_documents[i].doc_id}) = 1
    /\ (run >= 2 /\ prev.completed /\ pc \notin {"start", "input", "raised"}) =>
          \A d \in prev.failed : \E i \in Tasks : all_documents[i].doc_id = d

\* C18 (backoff schedule): before retry attempt k+1 of a task, k = 1, 2, tenacity
\* sleeps min(WaitMax, WaitMin * 2^(k-1)): 4 before the second attempt, 8 before
\* the third.
BackoffSchedule ==
    \A i \in Tasks : \A k \in 1..(MaxAttempts - 1) :
        (tpc[i] = "done" /\ plan[i] >= k) =>
            /\ Len(waits[i]) >= k
            /\ waits[i][k] = Min(WaitMax, WaitMin * (2 ^ (k - 1)))

\* ---- one invocation of the batch, with the scheduling of the event loop: a
\* step of the coordinator that can run does run, a waiting task is admitted
\* when the semaphore has a unit, and every call to the LLM returns
NextRun ==
    \/ LoadExisting
    \/ LoadInput
    \/ \E i \in Tasks : Acquire(i)
    \/ \E i \in Tasks : Respond(i)
    \/ Merge
    \/ OpenOutput
    \/ DumpOutput
    \/ Report

LiveSpec ==
    /\ Init
    /\ [][NextRun]_vars
    /\ WF_vars(LoadExisting)
    /\ WF_vars(LoadInput)
    /\ WF_vars(\E i \in Tasks : Acquire(i))
    /\ \A i \in 1..MaxDocs : WF_vars(i \in Tasks /\ Respond(i))
    /\ WF_vars(Merge)

\* C19 (no deadlock on the limiter): while tasks are gathered, a waiting task
\* always has either a free unit or a task in flight that will free one; and
\* under fair scheduling, with every call returning, the run gets from the
\* start of gather to the save step, that is every task is admitted and ends.
DeadlockFree ==
    /\ []((pc = "gather" /\ \E i \in Tasks : tpc[i] = "pending")
            => (sem > 0 \/ InFlight # {}))
    /\ (pc = "gather") ~> (pc = "save")

\* C19 witness: more tasks than units, so some task had to wait, and the run
\* got to the save step.
DeadlockFreeWitness ==
    /\ pc = "save"
    /\ Len(all_documents) > max_concurrency

\* The successful task that comes last in input order among those for identifier d
LastOk(d) ==
    CHOOSE i \in Tasks :
        /\ results[i].ok /\ results[i].doc_id = d
        /\ \A j \in Tasks : (results[j].ok /\ results[j].doc_id = d) => j <= i

\* The store determined by the loaded store, the pending list and the outcomes
ExpectedStore ==
    [d \in (DOMAIN existing_headings) \cup SucceededIds |->
        IF d \in SucceededIds THEN results[LastOk(d)].sections ELSE existing_headings[d]]

\* C20 (the result does not depend on the schedule): in whatever order the tasks
\* were admitted and returned, the merged store and the written file are the
\* loaded store overwritten, per identifier, by the outcome of the last
\* successful task for it in input order.
ScheduleIndependent ==
    /\ AfterGather => headings_data = ExpectedStore
    /\ Written => (file.state = "ok" /\ file.data = ExpectedStore)

\* C20 witness: two tasks for one identifier both succeeded with different
\* Sections, and the written store holds those of the later one in input order.
ScheduleIndependentWitness ==
    /\ pc = "done"
    /\ \E i, j \in Tasks :
          /\ i < j
          /\ results[i].ok /\ results[j].ok
          /\ results[i].doc_id = results[j].doc_id
          /\ results[i].sections # results[j].sections
          /\ file.data[results[j].doc_id] = results[j].sections

====
